---- MODULE Spec2Model ----
(***************************************************************************)
(* A model of lmdb-viewer: the Database list model (src/src/database.rs)   *)
(* and the window that drives it (src/src/window.rs), together with the    *)
(* LMDB store they read and the writers that change that store behind the  *)
(* viewer's back.                                                          *)
(*                                                                         *)
(* Five specifications are given.                                          *)
(*   Spec       drives Database::load / Database::reload directly on the   *)
(*              collections of one environment while the store changes.    *)
(*   SpecWin    is the window: win.open-database, the drop-down's          *)
(*              selection handler and win.update-database.                 *)
(*   SpecPair   holds two collections of one environment at a time, with   *)
(*              a direct caller or in the window.                          *)
(*   SpecTxn    follows load and reload step by step, with their read      *)
(*              transaction, between the writers' commits.                 *)
(*   SpecNoLock follows what the writers' commits do to the pages a read   *)
(*              transaction of load is on (the environment is NO_LOCK).    *)
(***************************************************************************)
EXTENDS Integers, Sequences, FiniteSets, TLC

\* ------------------------------------------------------------------ bounds

\* Most records (root-table keys and sub-table records together) the store
\* under the Database holds.
MaxRecs == 3

\* Most records the stores the window can open hold altogether.
MaxWinRecs == 2

\* ---------------------------------------------------------------- universe

\* Keys and values are byte strings.  The keys: "a", and "a" followed by a
\* UTF-8 lead byte with nothing after it (not valid UTF-8; "a" is a proper
\* prefix of it).
Keys == { <<97>>, <<97, 195>> }
Vals == { <<1>>, <<2>> }

\* The value LMDB stores in the root table under a sub-table's name.
SubDbVal == <<0>>

\* Store roots the user can pick in the folder dialog.
Dirs == { "d1", "d2" }

\* Option<&str> of Database::load: None is the unnamed root table.
NoName == [ some |-> FALSE, key |-> <<>> ]
Name(k) == [ some |-> TRUE, key |-> k ]

NoEnv == "none"

\* The two widgets of the window that hold a Database as their model.
Slots == { "drop_down", "column_view_model" }

VARIABLES
    store,      \* store[d]: the LMDB environment at root d, owned by others
    env,        \* imp.env of the window: NoEnv or the opened root
    models,     \* models[slot]: NoDb or the Database installed in the widget
    selected,   \* the drop-down's selection: position and selected item
    dialog,     \* open_database is suspended in the folder dialog's await
    crashed,    \* the process aborted on a panic
    last,       \* the last operation: its inputs, its outcome, what it emitted
    snapshot,   \* snapshot[slot]: what the most recent successful load or
                \* reload of the slot's Database read from its table
    txn         \* the load or reload that is under way, where the model
                \* follows one step by step, and its read transaction

vars == << store, env, models, selected, dialog, crashed, last, snapshot, txn >>

\* ------------------------------------------------------------------ store

\* A store.  The root table maps each key to nothing, to an ordinary value,
\* or to a sub-table's descriptor (the key names a sub-table); sub[k] is that
\* sub-table, a set of <<key, value>> records (a set, so that a DUPSORT
\* table can hold several records under one key).
Records == Keys \X Vals

Absent == [ kind |-> "absent", val |-> <<>> ]
Plain(v) == [ kind |-> "plain", val |-> v ]
SubDb == [ kind |-> "subdb", val |-> SubDbVal ]

EmptyStore == [ root |-> [ k \in Keys |-> Absent ], sub |-> [ k \in Keys |-> {} ] ]

RootRecords(st) ==
    { <<k, st.root[k].val>> : k \in { x \in Keys : st.root[x].kind # "absent" } }

NoTable == [ exists |-> FALSE, recs |-> {} ]

\* The table a name refers to in a store.
TableOf(st, name) ==
    IF ~name.some THEN [ exists |-> TRUE, recs |-> RootRecords(st) ]
    ELSE IF name.key \in Keys /\ st.root[name.key].kind = "subdb"
         THEN [ exists |-> TRUE, recs |-> st.sub[name.key] ]
    ELSE NoTable

StoreSize(st) ==
    Cardinality({ k \in Keys : st.root[k].kind # "absent" })
        + Cardinality({ kr \in Keys \X Records : kr[2] \in st.sub[kr[1]] })

RECURSIVE SumSizes(_, _)
SumSizes(st, dirs) ==
    IF dirs = {} THEN 0
    ELSE LET d == CHOOSE x \in dirs : TRUE
         IN  StoreSize(st[d]) + SumSizes(st, dirs \ {d})

TotalSize(st) == SumSizes(st, Dirs)

\* LMDB's default key order: bytewise, a proper prefix first.
RECURSIVE BytesLess(_, _)
BytesLess(a, b) ==
    IF b = <<>> THEN FALSE
    ELSE IF a = <<>> THEN TRUE
    ELSE IF Head(a) # Head(b) THEN Head(a) < Head(b)
    ELSE BytesLess(Tail(a), Tail(b))

RecLess(r1, r2) ==
    \/ BytesLess(r1[1], r2[1])
    \/ r1[1] = r2[1] /\ BytesLess(r1[2], r2[2])

RECURSIVE CursorReversed(_)
CursorReversed(recs) ==
    IF recs = {} THEN <<>>
    ELSE LET m == CHOOSE x \in recs : \A y \in recs \ {x} : RecLess(y, x)
         IN  <<m>> \o CursorReversed(recs \ {m})

\* An iteration whose order is not the table's alone: it turns with the
\* outcome of the call before.
CursorBySeed(recs) ==
    LET asc == [ r \in recs |-> Cardinality({ x \in recs : RecLess(x, r) }) + 1 ]
        n == Cardinality(recs)
    IN  [ i \in 1 .. n |->
            CHOOSE r \in recs : asc[r] = (IF last.ok THEN i ELSE n + 1 - i) ]

\* db.iter(&rtxn): the records of a table in the store's key order.
RECURSIVE Cursor(_)
Cursor(recs) ==
    IF recs = {} THEN <<>>
    ELSE LET m == CHOOSE x \in recs : \A y \in recs \ {x} : RecLess(x, y)
         IN  <<m>> \o Cursor(recs \ {m})

\* ------------------------------------------------------------------ faults

\* What the store layer can fail at during one load or reload: beginning the
\* read transaction, opening the table, opening the iterator, or reading the
\* record at index `at` of the iteration.
Faults ==
    { [ kind |-> k, at |-> 0 ] : k \in { "none", "txn", "open", "iter" } }
        \cup { [ kind |-> "rec", at |-> i ] : i \in 1 .. MaxRecs }

NoFault == [ kind |-> "none", at |-> 0 ]

\* reload opens no table.
ReloadFaults == Faults \ { [ kind |-> "open", at |-> 0 ] }

\* ------------------------------------------------------------ DatabaseItem

DatabaseItem(key, data) == [ key |-> key, data |-> data ]

\* --------------------------------------------------------------- Database

IndexOfKey(items, key) ==
    IF \E i \in 1 .. Len(items) : items[i].key = key
    THEN CHOOSE i \in 1 .. Len(items) : items[i].key = key
    ELSE 0

InsertKeepingDuplicates(items, key, item) == Append(items, item)

\* IndexMap::insert: a new key is appended; a key already held keeps its
\* place and takes the new item.
IndexMapInsert(items, key, item) ==
    LET i == IndexOfKey(items, key)
    IN  IF i = 0 THEN Append(items, item) ELSE [ items EXCEPT ![i] = item ]

\* .map(...).collect::<Result<IndexMap<_, _>, _>>() over the cursor: the
\* items in iteration order, or the error of the first record that fails.
\* `items` of a failed collect is what had been gathered; the code drops it.
RECURSIVE CollectFrom(_, _, _, _)
CollectFrom(cursor, i, fault, acc) ==
    IF i > Len(cursor) THEN [ ok |-> TRUE, items |-> acc ]
    ELSE IF fault.kind = "rec" /\ fault.at = i THEN [ ok |-> FALSE, items |-> acc ]
    ELSE CollectFrom(cursor, i + 1, fault,
            IndexMapInsert(acc, cursor[i][1],
                DatabaseItem(cursor[i][1], cursor[i][2])))

CollectKeepingPartial(cursor, fault) ==
    [ ok |-> TRUE, items |-> CollectFrom(cursor, 1, fault, <<>>).items ]

Collect(cursor, fault) == CollectFrom(cursor, 1, fault, <<>>)

\* A Database object; NoDb where a widget has no model.
NoDb == [ some |-> FALSE, env |-> NoEnv, name |-> NoName, items |-> <<>> ]

\* ListModelImpl::n_items.  The cast `as u32` changes no length a table of
\* the model can have.
n_items(db) == Len(db.items)

NoItem == [ some |-> FALSE, key |-> <<>>, data |-> <<>> ]

\* ListModelImpl::item: None past the end (position counts from 0).
item(db, position) ==
    IF position + 1 <= Len(db.items)
    THEN [ some |-> TRUE, key |-> db.items[position + 1].key,
           data |-> db.items[position + 1].data ]
    ELSE NoItem

\* What an observer reads through n_items()/item(i).
Observed(db) == [ i \in 1 .. n_items(db) |-> item(db, i - 1) ]

\* The result of load: Ok(this) or Err.
LoadOk(db) == [ ok |-> TRUE, err |-> "", db |-> db ]
LoadErr(kind) == [ ok |-> FALSE, err |-> kind, db |-> NoDb ]

OpenMissingAsEmpty(st, name) == "ok"

\* env.open_database(&rtxn, name): Ok(Some(db)) for the root table and for a
\* key of the root table that holds a sub-table, Ok(None) for a key the root
\* table does not hold, Err for a key that holds an ordinary record.
open_database(st, name) ==
    IF TableOf(st, name).exists THEN "ok"
    ELSE IF name.key \in Keys /\ st.root[name.key].kind = "plain" THEN "incompatible"
    ELSE "none"

\* Database::load
load(st, dir, name, fault) ==
    IF fault.kind = "txn" THEN LoadErr("txn")
    ELSE IF fault.kind = "open" THEN LoadErr("open")
    ELSE IF open_database(st[dir], name) = "incompatible" THEN LoadErr("incompatible")
    ELSE IF open_database(st[dir], name) = "none" THEN LoadErr("database not found")
    ELSE IF fault.kind = "iter" THEN LoadErr("iter")
    ELSE LET c == Collect(Cursor(TableOf(st[dir], name).recs), fault)
         IN  IF ~c.ok THEN LoadErr("rec")
             ELSE LoadOk([ some |-> TRUE, env |-> dir, name |-> name,
                           items |-> c.items ])

\* One items_changed emission, with what n_items()/item(i) show while the
\* handlers of the signal run.
items_changed(db, position, removed, added) ==
    [ position |-> position, removed |-> removed, added |-> added,
      seen |-> Observed(db) ]

\* The result of reload: Ok(()) or Err, the object afterwards, and the
\* items_changed emissions of the call.
ReloadErrKeepingPartial(db, partial, kind) ==
    [ ok |-> FALSE, err |-> kind, db |-> [ db EXCEPT !.items = partial ],
      emitted |-> <<>> ]

ReloadErrNotifying(db, partial, kind) ==
    [ ok |-> FALSE, err |-> kind, db |-> db,
      emitted |-> << items_changed(db, 0, n_items(db), n_items(db)) >> ]

\* The `?` of reload: the error goes to the caller, the object is as it was.
ReloadErr(db, partial, kind) ==
    [ ok |-> FALSE, err |-> kind, db |-> db, emitted |-> <<>> ]

NotifyBeforeReplace(old, new, prev_len, new_len) ==
    IF new_len < prev_len THEN << items_changed(old, 0, new_len, prev_len) >>
    ELSE IF new_len = prev_len THEN << items_changed(old, 0, prev_len, prev_len) >>
    ELSE << items_changed(old, 0, prev_len, new_len) >>

\* The match on new_len.cmp(&prev_len) that ends reload; `old` is the object
\* before imp.items.replace(items), `new` the object after it.
Notify(old, new, prev_len, new_len) ==
    IF new_len < prev_len THEN << items_changed(new, 0, new_len, prev_len) >>
    ELSE IF new_len = prev_len THEN << items_changed(new, 0, prev_len, prev_len) >>
    ELSE << items_changed(new, 0, prev_len, new_len) >>

\* Database::reload.  The handle `inner` refers to the table by name: the
\* iterator cannot be opened on a sub-table that is no longer in the store.
reload(db, st, fault) ==
    LET prev_len == n_items(db)
        table == TableOf(st[db.env], db.name)
    IN  IF fault.kind = "txn" THEN ReloadErr(db, <<>>, "Failed to create read txn")
        ELSE IF fault.kind = "iter" \/ ~table.exists
             THEN ReloadErr(db, <<>>, "Failed to iter db")
        ELSE LET c == Collect(Cursor(table.recs), fault)
             IN  IF ~c.ok THEN ReloadErr(db, c.items, "Failed to collect db")
                 ELSE LET new == [ db EXCEPT !.items = c.items ]
                          new_len == n_items(new)
                      IN  [ ok |-> TRUE, err |-> "", db |-> new,
                            emitted |-> Notify(db, new, prev_len, new_len) ]

\* std::str::from_utf8 on a key: whether the bytes are well-formed UTF-8
\* (the str it returns has the same bytes).
RECURSIVE ValidUtf8(_)
ValidUtf8(b) ==
    LET Cont(x) == x >= 128 /\ x <= 191
        n == Len(b)
    IN  IF n = 0 THEN TRUE
        ELSE IF b[1] <= 127 THEN ValidUtf8(SubSeq(b, 2, n))
        ELSE IF b[1] >= 194 /\ b[1] <= 223
             THEN n >= 2 /\ Cont(b[2]) /\ ValidUtf8(SubSeq(b, 3, n))
        ELSE IF b[1] >= 224 /\ b[1] <= 239
             THEN /\ n >= 3 /\ Cont(b[2]) /\ Cont(b[3])
                  /\ (b[1] = 224 => b[2] >= 160)
                  /\ (b[1] = 237 => b[2] <= 159)
                  /\ ValidUtf8(SubSeq(b, 4, n))
        ELSE IF b[1] >= 240 /\ b[1] <= 244
             THEN /\ n >= 4 /\ Cont(b[2]) /\ Cont(b[3]) /\ Cont(b[4])
                  /\ (b[1] = 240 => b[2] >= 144)
                  /\ (b[1] = 244 => b[2] <= 143)
                  /\ ValidUtf8(SubSeq(b, 5, n))
        ELSE FALSE

\* GTK_INVALID_LIST_POSITION, and the selection of a drop-down without one.
InvalidPosition == -1
NoSelection == [ position |-> InvalidPosition, item |-> NoItem ]

\* ------------------------------------------------------- the last operation

\* Whether an injected fault strikes a call that gets as far as iterating
\* the given table.
FaultHits(fault, table) ==
    \/ fault.kind \in { "txn", "open", "iter" }
    \/ fault.kind = "rec" /\ table.exists /\ fault.at <= Cardinality(table.recs)

\* `repeat`: the operation was a load that repeated the one before it.
\* `ran`: the reload calls win.update-database made, in order, with whether
\* each returned Ok.
NoLast ==
    [ op |-> "none", slot |-> "", name |-> NoName, hit |-> FALSE, ok |-> TRUE,
      err |-> "", outcome |-> "", emitted |-> <<>>, repeat |-> FALSE,
      ran |-> <<>> ]

\* ----------------------------------------------------- external writers

\* Other processes own the store and change it at any time (the viewer
\* opens it READ_ONLY | NO_LOCK and never writes).  `cap` bounds the store.

ExtPutRoot(d, k, v) ==
    /\ store[d].root[k].kind # "subdb"
    /\ store[d].root[k] # Plain(v)
    /\ store' = [ store EXCEPT ![d].root[k] = Plain(v) ]

ExtDelRoot(d, k) ==
    /\ store[d].root[k].kind = "plain"
    /\ store' = [ store EXCEPT ![d].root[k] = Absent ]

ExtCreateSub(d, k) ==
    /\ store[d].root[k].kind = "absent"
    /\ store' = [ store EXCEPT ![d].root[k] = SubDb, ![d].sub[k] = {} ]

ExtDropSub(d, k) ==
    /\ store[d].root[k].kind = "subdb"
    /\ store' = [ store EXCEPT ![d].root[k] = Absent, ![d].sub[k] = {} ]

ExtPutSub(d, k, r) ==
    /\ store[d].root[k].kind = "subdb"
    /\ r \notin store[d].sub[k]
    /\ store' = [ store EXCEPT ![d].sub[k] = @ \cup {r} ]

ExtDelSub(d, k, r) ==
    /\ r \in store[d].sub[k]
    /\ store' = [ store EXCEPT ![d].sub[k] = @ \ {r} ]

\* ----------------------------------------------- Spec: the Database alone

\* The root the collections of Spec are loaded from.
TheDir == "d1"

SlotOf(name) == IF name.some THEN "column_view_model" ELSE "drop_down"

\* The names load can be called with: None, or a key as a str.
Names == { NoName } \cup { Name(k) : k \in { x \in Keys : ValidUtf8(x) } }

\* What a read of the table yields when nothing fails: the records the
\* table holds at that moment, and the entries read from them.
Read(st, dir, name) ==
    [ recs |-> TableOf(st[dir], name).recs,
      items |-> Collect(Cursor(TableOf(st[dir], name).recs), NoFault).items ]

NoSnapshot == [ recs |-> {}, items |-> <<>> ]

\* No load or reload is under way and no read transaction is open.  `open`
\* is the RoTxn; `stage` is where the call stands ("idle": not in a call,
\* "txn": read_txn() returned, "cursor": the iterator is open); `found` and
\* `view` are what open_database answers and the table as the transaction's
\* version of the store has them; `acc` are the entries gathered;
\* `last_read` is the record the cursor stands on; `pages` is the state of
\* the pages that hold `view`; `versions` are the contents the table has
\* had since read_txn(), in `commits` commits of the writers (both kept
\* under SpecNoLock only).
NoTxn ==
    [ open |-> FALSE, stage |-> "idle", op |-> "", slot |-> "", name |-> NoName,
      found |-> "none", view |-> NoTable, acc |-> <<>>, at_start |-> TRUE,
      last_read |-> <<>>, pages |-> "live", versions |-> {}, commits |-> 0 ]

Init ==
    /\ store = [ d \in Dirs |-> EmptyStore ]
    /\ env = NoEnv
    /\ models = [ s \in Slots |-> NoDb ]
    /\ selected = NoSelection
    /\ dialog = FALSE
    /\ crashed = FALSE
    /\ last = NoLast
    /\ snapshot = [ s \in Slots |-> NoSnapshot ]
    /\ txn = NoTxn

\* Whether a load of the table `name` repeats the caller's last operation:
\* that was a successful load of the same table, and the table holds what
\* it held then.
Repeated(name) ==
    /\ last.op = "load" /\ last.ok /\ last.name = name
    /\ snapshot[SlotOf(name)].recs = TableOf(store[TheDir], name).recs

\* The caller runs Database::load.  It keeps the collection load returns in
\* place of the one it held; an Err leaves it with what it held.
Load(name, fault) ==
    LET r == load(store, TheDir, name, fault)
        s == SlotOf(name)
    IN  /\ models' = IF r.ok THEN [ x \in Slots |-> IF x = s THEN r.db ELSE NoDb ]
                     ELSE models
        /\ snapshot' = IF r.ok
                       THEN [ x \in Slots |->
                                IF x = s THEN Read(store, TheDir, name) ELSE NoSnapshot ]
                       ELSE snapshot
        /\ last' = [ op |-> "load", slot |-> s, name |-> name,
                     hit |-> FaultHits(fault, TableOf(store[TheDir], name)),
                     ok |-> r.ok, err |-> r.err,
                     outcome |-> IF r.ok THEN "ok" ELSE "err", emitted |-> <<>>,
                     repeat |-> Repeated(name), ran |-> <<>> ]
        /\ UNCHANGED << store, env, selected, dialog, crashed, txn >>

ReloadAllOfEnv(s, fault) ==
    /\ models[s].some
    /\ LET r == [ x \in Slots |->
                    IF models[x].some /\ models[x].env = models[s].env
                    THEN reload(models[x], store, IF x = s THEN fault ELSE NoFault)
                    ELSE [ ok |-> TRUE, err |-> "", db |-> models[x],
                           emitted |-> <<>> ] ]
       IN  /\ models' = [ x \in Slots |-> r[x].db ]
           /\ snapshot' = [ x \in Slots |->
                              IF models[x].some /\ r[x].ok
                              THEN Read(store, models[x].env, models[x].name)
                              ELSE snapshot[x] ]
           /\ last' = [ op |-> "reload", slot |-> s, name |-> models[s].name,
                        hit |-> FaultHits(fault,
                                   TableOf(store[models[s].env], models[s].name)),
                        ok |-> r[s].ok, err |-> r[s].err,
                        outcome |-> IF r[s].ok THEN "ok" ELSE "err",
                        emitted |-> r[s].emitted, repeat |-> FALSE, ran |-> <<>> ]
    /\ UNCHANGED << store, env, selected, dialog, crashed, txn >>

\* The caller runs reload on the collection it holds.
Reload(s, fault) ==
    /\ models[s].some
    /\ LET db == models[s]
           r == reload(db, store, fault)
       IN  /\ models' = [ models EXCEPT ![s] = r.db ]
           /\ snapshot' = IF r.ok
                          THEN [ snapshot EXCEPT ![s] = Read(store, db.env, db.name) ]
                          ELSE snapshot
           /\ last' = [ op |-> "reload", slot |-> s, name |-> db.name,
                        hit |-> FaultHits(fault, TableOf(store[db.env], db.name)),
                        ok |-> r.ok, err |-> r.err,
                        outcome |-> IF r.ok THEN "ok" ELSE "err",
                        emitted |-> r.emitted, repeat |-> FALSE, ran |-> <<>> ]
    /\ UNCHANGED << store, env, selected, dialog, crashed, txn >>

\* A writer changes the store by one record or one sub-table, within `cap`
\* records over all stores.
ExtWrite(d, cap) ==
    /\ \/ \E k \in Keys, v \in Vals : ExtPutRoot(d, k, v)
       \/ \E k \in Keys : ExtDelRoot(d, k)
       \/ \E k \in Keys : ExtCreateSub(d, k)
       \/ \E k \in Keys : ExtDropSub(d, k)
       \/ \E k \in Keys, r \in Records : ExtPutSub(d, k, r)
       \/ \E k \in Keys, r \in Records : ExtDelSub(d, k, r)
    /\ TotalSize(store') <= cap
    /\ UNCHANGED << env, models, selected, dialog, crashed, last, snapshot >>

Next ==
    \/ \E name \in Names, fault \in Faults : Load(name, fault)
    \/ \E s \in Slots, fault \in ReloadFaults : Reload(s, fault)
    \/ ExtWrite(TheDir, MaxRecs) /\ UNCHANGED txn

Spec == Init /\ [][Next]_vars

\* ------------------------------------------------------ SpecWin: the window

\* The window's fields and widgets as one value, so that the handlers below
\* can be written as functions of it.
Window ==
    [ env |-> env, models |-> models, selected |-> selected, crashed |-> crashed,
      snapshot |-> snapshot, emitted |-> <<>>, ran |-> <<>> ]

\* The closure of connect_selected_item_notify in setup_view.  It reads the
\* window's env; with an env and a selected item it decodes the item's key
\* and loads that sub-table, and both unwrap()s panic on an Err.
selected_item_notify(w, st, fault) ==
    IF w.env = NoEnv THEN w
    ELSE IF ~w.selected.item.some
         THEN [ w EXCEPT !.models["column_view_model"] = NoDb,
                         !.snapshot["column_view_model"] = NoSnapshot ]
    ELSE IF ~ValidUtf8(w.selected.item.key) THEN [ w EXCEPT !.crashed = TRUE ]
    ELSE LET name == Name(w.selected.item.key)
             r == load(st, w.env, name, fault)
         IN  IF ~r.ok THEN [ w EXCEPT !.crashed = TRUE ]
             ELSE [ w EXCEPT !.models["column_view_model"] = r.db,
                             !.snapshot["column_view_model"] = Read(st, w.env, name) ]

\* drop_down.set_model(Some(&db)): the drop-down wraps the model in a new
\* single selection, which selects the first item if there is one, and
\* announces its selected item: the closure above runs before set_model
\* returns.
set_model(w, db, snap, st, fault) ==
    selected_item_notify(
        [ w EXCEPT !.models["drop_down"] = db,
                   !.snapshot["drop_down"] = snap,
                   !.selected = IF n_items(db) > 0
                                THEN [ position |-> 0, item |-> item(db, 0) ]
                                ELSE NoSelection ],
        st, fault)

\* The drop-down's single selection on items_changed(position, removed,
\* added) of its model.  Every entry of a reloaded Database is a new
\* DatabaseItem object, so a selected item inside the removed range is gone:
\* the selection moves to an item of the new list and announces it.  A
\* selected item behind the removed range keeps its object and only shifts;
\* whether the drop-down then announces selected-item again depends on the
\* GTK build (`announce`).
selection_items_changed(w, e, st, fault, announce) ==
    LET db == w.models["drop_down"]
        sel == w.selected
    IN  IF ~sel.item.some
        THEN IF item(db, 0).some
             THEN selected_item_notify(
                     [ w EXCEPT !.selected = [ position |-> 0, item |-> item(db, 0) ] ],
                     st, fault)
             ELSE w
        ELSE IF sel.position < e.position THEN w
        ELSE IF sel.position >= e.position + e.removed
             THEN LET moved == [ w EXCEPT !.selected.position =
                                    sel.position + e.added - e.removed ]
                  IN  IF announce THEN selected_item_notify(moved, st, fault)
                      ELSE moved
        ELSE LET scaled == e.position
                    + ((sel.position - e.position) * e.added)
                        \div (IF e.removed > 1 THEN e.removed ELSE 1)
                 first == IF item(db, scaled).some THEN scaled
                          ELSE IF e.position > 0 THEN e.position - 1 ELSE 0
                 pos == IF item(db, first).some THEN first ELSE InvalidPosition
             IN  selected_item_notify(
                     [ w EXCEPT !.selected =
                         [ position |-> pos,
                           item |-> IF pos = InvalidPosition THEN NoItem
                                    ELSE item(db, pos) ] ],
                     st, fault)

\* What the folder dialog's future resolves to.
DialogResults == { "folder", "dismissed", "cancelled", "failed" }

\* win.open-database, up to the await on the folder dialog.
OpenDatabaseBegin ==
    /\ ~crashed
    /\ ~dialog
    /\ dialog' = TRUE
    /\ UNCHANGED << store, env, models, selected, crashed, last, snapshot, txn >>

OpenResult(w, outcome, ok, err, hit) ==
    [ w |-> w, outcome |-> outcome, ok |-> ok, err |-> err, hit |-> hit ]

OpenDatabaseEnvFirst(w, res, dir, opens, fault, hfault, st) ==
    IF res \in { "dismissed", "cancelled" } THEN OpenResult(w, res, TRUE, "", FALSE)
    ELSE IF res = "failed" THEN OpenResult(w, "dialog-error", FALSE, "dialog", FALSE)
    ELSE IF ~opens THEN OpenResult(w, "open-error", FALSE, "Failed to open env", FALSE)
    ELSE LET r == load(st, dir, NoName, fault)
             stored == [ w EXCEPT !.env = dir ]
         IN  IF ~r.ok
             THEN OpenResult(stored, "load-error", FALSE, "Failed to load unnamed db", TRUE)
             ELSE LET installed == set_model(stored, r.db, Read(st, dir, NoName), st, hfault)
                  IN  IF installed.crashed
                      THEN OpenResult(installed, "panicked", FALSE, "panic", FALSE)
                      ELSE OpenResult(installed, "opened", TRUE, "", FALSE)

\* Window::open_database from the dialog's answer on: open the environment
\* at the chosen root, load its unnamed table, install it in the drop-down,
\* and only then store the environment in imp.env.
open_database_resume(w, res, dir, opens, fault, hfault, st) ==
    IF res \in { "dismissed", "cancelled" } THEN OpenResult(w, res, TRUE, "", FALSE)
    ELSE IF res = "failed" THEN OpenResult(w, "dialog-error", FALSE, "dialog", FALSE)
    ELSE IF ~opens THEN OpenResult(w, "open-error", FALSE, "Failed to open env", FALSE)
    ELSE LET r == load(st, dir, NoName, fault)
         IN  IF ~r.ok
             THEN OpenResult(w, "load-error", FALSE, "Failed to load unnamed db", TRUE)
             ELSE LET installed == set_model(w, r.db, Read(st, dir, NoName), st, hfault)
                  IN  IF installed.crashed
                      THEN OpenResult(installed, "panicked", FALSE, "panic", FALSE)
                      ELSE OpenResult([ installed EXCEPT !.env = dir ],
                                      "opened", TRUE, "", FALSE)

\* win.open-database from the dialog's answer to its end; an Err is shown in
\* a message dialog.
OpenDatabaseResume(res, dir, opens, fault, hfault) ==
    /\ ~crashed
    /\ dialog
    /\ LET r == open_database_resume(Window, res, dir, opens, fault, hfault, store)
       IN  /\ env' = r.w.env
           /\ models' = r.w.models
           /\ selected' = r.w.selected
           /\ crashed' = r.w.crashed
           /\ snapshot' = r.w.snapshot
           /\ last' = [ op |-> "open", slot |-> "drop_down", name |-> NoName,
                        hit |-> r.hit, ok |-> r.ok, err |-> r.err,
                        outcome |-> r.outcome, emitted |-> <<>>,
                        repeat |-> FALSE, ran |-> <<>> ]
    /\ dialog' = FALSE
    /\ UNCHANGED << store, txn >>

\* The user picks another item of the drop-down.
SelectItem(i, hfault) ==
    /\ ~crashed
    /\ ~dialog
    /\ models["drop_down"].some
    /\ i \in 0 .. n_items(models["drop_down"]) - 1
    /\ i # selected.position
    /\ LET w == selected_item_notify(
                    [ Window EXCEPT !.selected =
                        [ position |-> i, item |-> item(models["drop_down"], i) ] ],
                    store, hfault)
       IN  /\ models' = w.models
           /\ selected' = w.selected
           /\ crashed' = w.crashed
           /\ snapshot' = w.snapshot
           /\ last' = [ op |-> "select", slot |-> "column_view_model",
                        name |-> Name(w.selected.item.key), hit |-> FALSE,
                        ok |-> ~w.crashed, err |-> IF w.crashed THEN "panic" ELSE "",
                        outcome |-> IF w.crashed THEN "panicked" ELSE "ok",
                        emitted |-> <<>>, repeat |-> FALSE, ran |-> <<>> ]
    /\ UNCHANGED << store, env, dialog, txn >>

Tagged(s, emitted) ==
    [ i \in 1 .. Len(emitted) |->
        [ slot |-> s, position |-> emitted[i].position, removed |-> emitted[i].removed,
          added |-> emitted[i].added, seen |-> emitted[i].seen ] ]

\* The reload of the drop-down's model in win.update-database, with what the
\* drop-down does on the items_changed it emits.
update_drop_down(w, st, fault, hfault, announce) ==
    IF ~w.models["drop_down"].some THEN w
    ELSE LET db == w.models["drop_down"]
             r == reload(db, st, fault)
             reloaded ==
                [ w EXCEPT !.models["drop_down"] = r.db,
                           !.snapshot["drop_down"] =
                                IF r.ok THEN Read(st, db.env, db.name) ELSE @,
                           !.emitted = @ \o Tagged("drop_down", r.emitted),
                           !.ran = Append(@, [ slot |-> "drop_down", ok |-> r.ok ]) ]
         IN  IF r.emitted = <<>> THEN reloaded
             ELSE selection_items_changed(reloaded, r.emitted[1], st, hfault, announce)

\* The reload of the column view's model in win.update-database.
update_column_view(w, st, fault) ==
    IF w.crashed \/ ~w.models["column_view_model"].some THEN w
    ELSE LET db == w.models["column_view_model"]
             r == reload(db, st, fault)
         IN  [ w EXCEPT !.models["column_view_model"] = r.db,
                        !.snapshot["column_view_model"] =
                            IF r.ok THEN Read(st, db.env, db.name) ELSE @,
                        !.emitted = @ \o Tagged("column_view_model", r.emitted),
                        !.ran = Append(@, [ slot |-> "column_view_model",
                                            ok |-> r.ok ]) ]

\* win.update-database: reload the drop-down's model, then the column
\* view's; an Err of either is logged.
UpdateDatabase(f1, f2, hfault, announce) ==
    /\ ~crashed
    /\ ~dialog
    /\ LET w == update_column_view(
                    update_drop_down(Window, store, f1, hfault, announce), store, f2)
       IN  /\ models' = w.models
           /\ selected' = w.selected
           /\ crashed' = w.crashed
           /\ snapshot' = w.snapshot
           /\ last' = [ op |-> "update", slot |-> "", name |-> NoName, hit |-> FALSE,
                        ok |-> ~w.crashed, err |-> IF w.crashed THEN "panic" ELSE "",
                        outcome |-> IF w.crashed THEN "panicked" ELSE "ok",
                        emitted |-> w.emitted, repeat |-> FALSE, ran |-> w.ran ]
    /\ UNCHANGED << store, env, dialog, txn >>

\* The faults injected under the window: none, the read transaction, the
\* first record of the iteration.
WinFaults ==
    { NoFault, [ kind |-> "txn", at |-> 0 ], [ kind |-> "rec", at |-> 1 ] }

\* The window has not been used yet.  Under SpecWin the writers fill the
\* stores before the user's first action (Spec is where the store changes
\* under a collection).
Untouched == last = NoLast /\ ~dialog

NextWin ==
    \/ OpenDatabaseBegin
    \/ \E res \in DialogResults \ { "folder" } :
            OpenDatabaseResume(res, TheDir, TRUE, NoFault, NoFault)
    \/ \E dir \in Dirs : OpenDatabaseResume("folder", dir, FALSE, NoFault, NoFault)
    \/ \E dir \in Dirs, fault \in WinFaults, hfault \in WinFaults :
            OpenDatabaseResume("folder", dir, TRUE, fault, hfault)
    \/ \E i \in 0 .. MaxWinRecs, hfault \in WinFaults : SelectItem(i, hfault)
    \/ \E f1 \in WinFaults, f2 \in WinFaults, hfault \in WinFaults,
          announce \in BOOLEAN :
            UpdateDatabase(f1, f2, hfault, announce)
    \/ \E d \in Dirs : Untouched /\ ExtWrite(d, MaxWinRecs) /\ UNCHANGED txn

SpecWin == Init /\ [][NextWin]_vars

\* --------------------- SpecPair: two collections of one environment

\* Most records the store holds under SpecPair.
MaxPairRecs == 2

\* The faults injected under SpecPair: none, the read transaction.
PairFaults == { NoFault, [ kind |-> "txn", at |-> 0 ] }

\* The caller runs Database::load and keeps the collection next to the one
\* it holds of the other table.
LoadPair(name, fault) ==
    LET r == load(store, TheDir, name, fault)
        s == SlotOf(name)
    IN  /\ models' = IF r.ok THEN [ models EXCEPT ![s] = r.db ] ELSE models
        /\ snapshot' = IF r.ok
                       THEN [ snapshot EXCEPT ![s] = Read(store, TheDir, name) ]
                       ELSE snapshot
        /\ last' = [ op |-> "load", slot |-> s, name |-> name,
                     hit |-> FaultHits(fault, TableOf(store[TheDir], name)),
                     ok |-> r.ok, err |-> r.err,
                     outcome |-> IF r.ok THEN "ok" ELSE "err", emitted |-> <<>>,
                     repeat |-> FALSE, ran |-> <<>> ]
        /\ UNCHANGED << store, env, selected, dialog, crashed, txn >>

\* The collections are held by a direct caller of the Database (or by
\* nobody yet), and not by the window.
DirectUse == last.op \in { "none", "load", "reload" } /\ ~dialog

\* The window is in use, or nothing is yet.
WindowUse == last.op \notin { "load", "reload" }

\* Two collections of the environment at one root: a direct caller loads
\* and reloads them while the writers change the store, or the window
\* holds them (registry and table) over the store the writers have left.
NextPair ==
    \/ \E name \in Names, fault \in PairFaults : DirectUse /\ LoadPair(name, fault)
    \/ \E s \in Slots, fault \in PairFaults : DirectUse /\ Reload(s, fault)
    \/ DirectUse /\ ExtWrite(TheDir, MaxPairRecs) /\ UNCHANGED txn
    \/ WindowUse /\ OpenDatabaseBegin
    \/ \E res \in { "folder", "dismissed" } :
            WindowUse /\ OpenDatabaseResume(res, TheDir, TRUE, NoFault, NoFault)
    \/ \E i \in 0 .. MaxPairRecs : WindowUse /\ SelectItem(i, NoFault)
    \/ \E f1 \in PairFaults, f2 \in PairFaults, announce \in BOOLEAN :
            WindowUse /\ UpdateDatabase(f1, f2, NoFault, announce)

SpecPair == Init /\ [][NextPair]_vars

\* ------------------------------- SpecTxn: load and reload, step by step

\* Most commits the writers make while one call is under way (SpecNoLock).
MaxCommits == 3

\* env.read_txn() on an environment opened READ_ONLY | NO_LOCK: the
\* transaction reads the version of the store that is current now.
read_txn(op, s, name) ==
    LET table == TableOf(store[TheDir], name)
    IN  [ open |-> TRUE, stage |-> "txn", op |-> op, slot |-> s, name |-> name,
          found |-> open_database(store[TheDir], name), view |-> table,
          acc |-> <<>>, at_start |-> TRUE, last_read |-> <<>>,
          pages |-> "live", versions |-> { table }, commits |-> 0 ]

ReturnKeepingTxn(t) == [ NoTxn EXCEPT !.open = t.open ]

\* Leaving load or reload, by `?` or at the end: the locals of the call are
\* dropped, rtxn among them, which ends the read transaction.
Return(t) == NoTxn

\* What the caller gets back, as `last`.
Returned(op, s, name, ok, err, emitted) ==
    [ op |-> op, slot |-> s, name |-> name, hit |-> ~ok, ok |-> ok, err |-> err,
      outcome |-> IF ok THEN "ok" ELSE "err", emitted |-> emitted,
      repeat |-> FALSE, ran |-> <<>> ]

\* The Err a failing step of the call under way returns; nothing else
\* changes.
Fails(kind_load, kind_reload) ==
    /\ last' = Returned(txn.op, txn.slot, txn.name, FALSE,
                        IF txn.op = "load" THEN kind_load ELSE kind_reload, <<>>)
    /\ txn' = Return(txn)
    /\ UNCHANGED << store, env, models, selected, dialog, crashed, snapshot >>

\* Database::load up to `let rtxn = env.read_txn()?`.
BeginLoad(name, fail) ==
    /\ txn.stage = "idle" /\ ~dialog /\ ~crashed
    /\ IF fail
       THEN /\ last' = Returned("load", SlotOf(name), name, FALSE, "txn", <<>>)
            /\ txn' = Return(txn)
       ELSE /\ txn' = read_txn("load", SlotOf(name), name)
            /\ last' = last
    /\ UNCHANGED << store, env, models, selected, dialog, crashed, snapshot >>

\* Database::reload up to `let rtxn = env.read_txn()...?`.
BeginReload(s, fail) ==
    /\ txn.stage = "idle" /\ ~dialog /\ ~crashed
    /\ models[s].some
    /\ IF fail
       THEN /\ last' = Returned("reload", s, models[s].name, FALSE,
                                "Failed to create read txn", <<>>)
            /\ txn' = Return(txn)
       ELSE /\ txn' = read_txn("reload", s, models[s].name)
            /\ last' = last
    /\ UNCHANGED << store, env, models, selected, dialog, crashed, snapshot >>

\* From the transaction to the open iterator: env.open_database(..)? with
\* ok_or_else in load, then db.iter(&rtxn)? in both.  `fail` is the step
\* the store layer fails at.
OpenCursor(fail) ==
    /\ txn.stage = "txn"
    /\ IF txn.op = "load" /\ fail = "open" THEN Fails("open", "")
       ELSE IF txn.op = "load" /\ txn.found = "incompatible"
            THEN Fails("incompatible", "")
       ELSE IF txn.op = "load" /\ txn.found = "none"
            THEN Fails("database not found", "")
       ELSE IF fail = "iter" \/ ~txn.view.exists
            THEN Fails("iter", "Failed to iter db")
       ELSE /\ txn' = [ txn EXCEPT !.stage = "cursor" ]
            /\ UNCHANGED << store, env, models, selected, dialog, crashed, last,
                            snapshot >>

\* The records the cursor can still come to in the given contents.
Ahead(recs) ==
    { r \in recs : txn.at_start \/ RecLess(txn.last_read, r) }

\* The end of the iteration in load: `this` gets the entries and is
\* returned; the caller keeps it in place of the collection it held.
FinishLoad ==
    LET db == [ some |-> TRUE, env |-> TheDir, name |-> txn.name, items |-> txn.acc ]
    IN  /\ models' = [ x \in Slots |-> IF x = txn.slot THEN db ELSE NoDb ]
        /\ snapshot' = [ x \in Slots |->
                           IF x = txn.slot
                           THEN [ recs |-> { << txn.acc[i].key, txn.acc[i].data >> :
                                               i \in 1 .. Len(txn.acc) },
                                  items |-> txn.acc ]
                           ELSE NoSnapshot ]
        /\ last' = Returned("load", txn.slot, txn.name, TRUE, "", <<>>)

\* The end of the iteration in reload: imp.items.replace(items), then the
\* notification.
FinishReload ==
    LET old == models[txn.slot]
        new == [ old EXCEPT !.items = txn.acc ]
    IN  /\ models' = [ models EXCEPT ![txn.slot] = new ]
        /\ snapshot' = [ snapshot EXCEPT ![txn.slot] =
                           [ recs |-> { << txn.acc[i].key, txn.acc[i].data >> :
                                          i \in 1 .. Len(txn.acc) },
                             items |-> txn.acc ] ]
        /\ last' = Returned("reload", txn.slot, txn.name, TRUE, "",
                            Notify(old, new, n_items(old), n_items(new)))

\* One turn of the iteration: the cursor moves to the next record and the
\* closure of .map() inserts it, or the record fails, or there is none and
\* the call ends.  The transaction is in no reader table (NO_LOCK): once
\* the writers have reused the pages of its version, a read (`torn`) may
\* come upon what the store holds now.
NextRecord(fail, torn) ==
    /\ txn.stage = "cursor"
    /\ torn => txn.pages = "reusable" /\ TableOf(store[TheDir], txn.name).exists
    /\ LET src == IF torn THEN TableOf(store[TheDir], txn.name).recs
                  ELSE txn.view.recs
           ahead == Ahead(src)
       IN  IF ahead = {}
           THEN /\ IF txn.op = "load" THEN FinishLoad ELSE FinishReload
                /\ txn' = Return(txn)
                /\ UNCHANGED << store, env, selected, dialog, crashed >>
           ELSE IF fail THEN Fails("rec", "Failed to collect db")
           ELSE LET m == CHOOSE x \in ahead : \A y \in ahead \ {x} : RecLess(x, y)
                IN  /\ txn' = [ txn EXCEPT
                                  !.acc = IndexMapInsert(@, m[1],
                                              DatabaseItem(m[1], m[2])),
                                  !.at_start = FALSE,
                                  !.last_read = m ]
                    /\ UNCHANGED << store, env, models, selected, dialog, crashed,
                                    last, snapshot >>

\* What a commit does to the pages of the version a read transaction is on,
\* when no reader table tells the writer of it: the first commit that
\* changes the table frees them, the next leaves them on the free list,
\* and the one after may reuse them.
Aged(pages, changed) ==
    IF pages = "live" THEN IF changed THEN "freed" ELSE "live"
    ELSE IF pages = "freed" THEN "aged"
    ELSE "reusable"

\* A writer commits while a call may be under way; the writers keep to the
\* records of the unnamed table here.  `tracked`: what the commit does to
\* the read transaction of the call under way is followed (SpecNoLock);
\* otherwise that transaction keeps reading its own version.
Commit(tracked) ==
    /\ ( tracked /\ txn.open ) => txn.commits < MaxCommits
    /\ ExtWrite(TheDir, MaxRecs)
    /\ \A k \in Keys : store'[TheDir].root[k].kind # "subdb"
    /\ txn' = IF ~txn.open \/ ~tracked THEN txn
              ELSE [ txn EXCEPT
                       !.pages = Aged(@, TableOf(store'[TheDir], txn.name)
                                             # TableOf(store[TheDir], txn.name)),
                       !.commits = @ + 1,
                       !.versions = @ \cup { TableOf(store'[TheDir], txn.name) } ]

\* Loads and reloads step by step, the writers, and the folder dialog with
\* the answers that load nothing.
NextTxn ==
    \/ \E name \in Names, fail \in BOOLEAN : BeginLoad(name, fail)
    \/ \E s \in Slots, fail \in BOOLEAN : BeginReload(s, fail)
    \/ \E fail \in { "none", "open", "iter" } : OpenCursor(fail)
    \/ \E fail \in BOOLEAN : NextRecord(fail, FALSE)
    \/ Commit(FALSE)
    \/ txn.stage = "idle" /\ OpenDatabaseBegin
    \/ \E res \in DialogResults \ { "folder" } :
            OpenDatabaseResume(res, TheDir, TRUE, NoFault, NoFault)
    \/ OpenDatabaseResume("folder", TheDir, FALSE, NoFault, NoFault)

SpecTxn == Init /\ [][NextTxn]_vars

\* ------------------- SpecNoLock: loads of the unnamed table under writers

\* Loads of the unnamed table, step by step, with nothing failing in the
\* store layer, while the writers commit.
NextNoLock ==
    \/ BeginLoad(NoName, FALSE)
    \/ OpenCursor("none")
    \/ \E torn \in BOOLEAN : NextRecord(FALSE, torn)
    \/ Commit(TRUE)

SpecNoLock == Init /\ [][NextNoLock]_vars

\* --------------------------------------------------- claims on the Database

\* A step of Spec in which the caller ran reload on the collection of slot s
\* (the operations never write the store; every writer's step does).
ReloadStep(s) ==
    /\ store' = store
    /\ last'.op = "reload"
    /\ last'.slot = s
    /\ models[s].some

LoadStep == store' = store /\ last'.op = "load"

\* The entries of a snapshot as an observer reads them.
AsObserved(items) ==
    [ i \in 1 .. Len(items) |->
        [ some |-> TRUE, key |-> items[i].key, data |-> items[i].data ] ]

\* C1: a Database's n_items()/item(i) are always the length and the entries
\* of the snapshot its most recent successful load or reload took, whatever
\* failed reloads and external writes happened since; and a step of an
\* external writer changes nothing n_items()/item(i) return.
C1_ObservableIsLastSnapshot ==
    /\ [](\A s \in Slots :
            models[s].some => Observed(models[s]) = AsObserved(snapshot[s].items))
    /\ [][store' # store =>
            \A s \in Slots : models'[s].some = models[s].some
                              /\ Observed(models'[s]) = Observed(models[s])]_vars

\* C1's case: the last reload failed while the table no longer holds what
\* the collection shows.
C1_Witness ==
    /\ last.op = "reload" /\ ~last.ok
    /\ models[last.slot].some
    /\ n_items(models[last.slot]) > 0
    /\ TableOf(store[models[last.slot].env], models[last.slot].name).recs
            # snapshot[last.slot].recs

\* C2: a reload that fails (read transaction, iterator or a record of the
\* iteration) returns the error, leaves the held items exactly as they were
\* and emits no items_changed.
C2_FailedReloadLeavesItems ==
    [][\A s \in Slots : ReloadStep(s) =>
          /\ last'.hit => ~last'.ok
          /\ ~last'.ok =>
                /\ last'.err # ""
                /\ Observed(models'[s]) = Observed(models[s])
                /\ last'.emitted = <<>>]_vars

\* C2's case: the iteration failed at a record after the first, on a
\* collection that holds items.
C2_Witness ==
    /\ last.op = "reload" /\ ~last.ok /\ last.err = "Failed to collect db"
    /\ n_items(models[last.slot]) > 0
    /\ Cardinality(TableOf(store[models[last.slot].env],
                            models[last.slot].name).recs) >= 2

\* Longest common prefix of two entry sequences.
CommonPrefix(O, N) ==
    LET Agree(p) == \A i \in 1 .. p : O[i] = N[i]
        cand == { p \in 0 .. Len(O) : p <= Len(N) /\ Agree(p) }
    IN  CHOOSE p \in cand : \A q \in cand : q <= p

\* Longest common suffix of two entry sequences that stays clear of the
\* common prefix p.
CommonSuffix(O, N, p) ==
    LET Agree(x) == \A i \in 1 .. x : O[Len(O) - x + i] = N[Len(N) - x + i]
        cand == { x \in 0 .. Len(O) : x + p <= Len(O) /\ x + p <= Len(N) /\ Agree(x) }
    IN  CHOOSE x \in cand : \A q \in cand : q <= x

\* The notification of the prefix/suffix diff of old O and new N.
Diff(O, N) ==
    LET p == CommonPrefix(O, N)
        x == CommonSuffix(O, N, p)
    IN  [ position |-> p, removed |-> Len(O) - x - p, added |-> Len(N) - x - p ]

Triple(e) == [ position |-> e.position, removed |-> e.removed, added |-> e.added ]

\* C3: a successful reload emits the notification (p, m - s - p, n - s - p)
\* of the longest common prefix p and suffix s of the old and the new
\* snapshot (stated here for the reloads that change the snapshot, where
\* the notification is not optional).
C3_NotificationIsPrefixSuffixDiff ==
    [][\A s \in Slots :
          ( /\ ReloadStep(s) /\ last'.ok
            /\ Observed(models'[s]) # Observed(models[s]) ) =>
          /\ Len(last'.emitted) = 1
          /\ Triple(last'.emitted[1])
                = Diff(Observed(models[s]), Observed(models'[s]))]_vars

\* C4: a reload of a table that holds what it held at the previous
\* successful load or reload emits no notification with a non-zero removed
\* or added.
C4_NoOpReloadEmitsNoChange ==
    [][\A s \in Slots :
          ( /\ ReloadStep(s) /\ last'.ok
            /\ TableOf(store[models[s].env], models[s].name).recs = snapshot[s].recs )
          => \A i \in 1 .. Len(last'.emitted) :
                last'.emitted[i].removed = 0 /\ last'.emitted[i].added = 0]_vars

\* The observer of a list model: it replaces `removed` entries at `position`
\* of its copy by item(position .. position + added - 1).
ApplyNotification(copy, e, db) ==
    SubSeq(copy, 1, e.position)
        \o [ i \in 1 .. e.added |-> item(db, e.position + i - 1) ]
        \o SubSeq(copy, e.position + e.removed + 1, Len(copy))

\* C5: every notification of reload is a valid range replacement from the
\* old snapshot (length m) to the new one (length n): position + removed <=
\* m, position + added <= n, m - removed + added = n; an observer applying
\* it to its copy of the old snapshot holds the new one.
C5_NotificationIsRangeReplacement ==
    [][\A s \in Slots : ReloadStep(s) /\ last'.ok =>
          \A i \in 1 .. Len(last'.emitted) :
             LET e == last'.emitted[i]
                 m == n_items(models[s])
                 n == n_items(models'[s])
             IN  /\ e.position + e.removed <= m
                 /\ e.position + e.added <= n
                 /\ m - e.removed + e.added = n
                 /\ ApplyNotification(Observed(models[s]), e, models'[s])
                        = Observed(models'[s])]_vars

\* C6: a successful reload whose new snapshot differs from the previous one
\* emits exactly one items_changed, and emits it after the held items were
\* replaced: a handler reading n_items()/item(i) sees the whole new snapshot.
C6_OneNotificationAfterReplace ==
    [][\A s \in Slots :
          ( /\ ReloadStep(s) /\ last'.ok
            /\ Observed(models'[s]) # Observed(models[s]) )
          => /\ Len(last'.emitted) = 1
             /\ last'.emitted[1].seen = AsObserved(snapshot'[s].items)
             /\ last'.emitted[1].seen = Observed(models'[s])]_vars

\* C6's case: a reload that changed the length has emitted.
C6_Witness ==
    /\ last.op = "reload" /\ last.ok
    /\ Len(last.emitted) = 1
    /\ last.emitted[1].removed # last.emitted[1].added
    /\ last.emitted[1].seen = Observed(models[last.slot])

\* Whether key k is in the root table / names a sub-table of the store.
InRoot(st, k) == st.root[k].kind # "absent"
SubTableExists(st, k) == st.root[k].kind = "subdb"

C10_ItemsStrictlyAscending ==
    \A s \in Slots :
        \A i, j \in 1 .. Len(models[s].items) :
            i < j => BytesLess(models[s].items[i].key, models[s].items[j].key)

\* C10's case: a collection read from a table that holds two records under
\* one key.
C10_Witness ==
    \E s \in Slots :
        /\ models[s].some
        /\ \E r1, r2 \in snapshot[s].recs : r1 # r2 /\ r1[1] = r2[1]
        /\ Len(models[s].items) = 1

\* Whether the entries hold every key of the records, each once, with a
\* value the table holds under that key.
Complete(items, recs) ==
    /\ { items[i].key : i \in 1 .. Len(items) } = { r[1] : r \in recs }
    /\ Len(items) = Cardinality({ r[1] : r \in recs })
    /\ \A i \in 1 .. Len(items) : << items[i].key, items[i].data >> \in recs

\* C11: a load or reload during which the store layer fails (at a record of
\* the iteration in particular) returns an error and hands no collection to
\* its caller; a collection that is returned or installed holds an entry
\* for every key of its table, never a proper prefix of them.
C11_NoPartialSnapshot ==
    /\ [](\A s \in Slots :
            models[s].some => Complete(models[s].items, snapshot[s].recs))
    /\ [][\A s \in Slots :
            ( /\ store' = store /\ last'.op \in { "load", "reload" }
              /\ last'.slot = s
              /\ last'.op = "reload" => models[s].some ) =>
            /\ last'.hit => ~last'.ok /\ models' = models
            /\ last'.ok =>
                  Complete(models'[s].items,
                           TableOf(store[TheDir], last'.name).recs)]_vars

\* C11's case: a load failed at a record of a table that holds at least two
\* records (a fault at the second would leave a proper prefix gathered).
C11_Witness ==
    /\ last.op = "load" /\ ~last.ok /\ last.err = "rec"
    /\ Cardinality(TableOf(store[TheDir], last.name).recs) >= 2

C13_SnapshotIsOneVersion ==
    [][( /\ txn.stage = "cursor" /\ txn'.stage = "idle" /\ last'.ok ) =>
          \E v \in txn.versions :
              /\ v.exists
              /\ models'[txn.slot].items = Collect(Cursor(v.recs), NoFault).items]_vars

\* C16: no read transaction is open when no load or reload is under way
\* (control is with the caller), nor while open_database waits for the
\* folder dialog.
C16_NoTxnOutsideCall == ( txn.stage = "idle" \/ dialog ) => ~txn.open

\* C16's case: a call that had begun its read transaction has returned an
\* error, and the folder dialog is now open.
C16_Witness ==
    /\ dialog
    /\ last.op \in { "load", "reload" } /\ ~last.ok
    /\ last.err \in { "open", "database not found", "incompatible", "iter", "rec",
                      "Failed to iter db", "Failed to collect db" }

\* ----------------------------------------------------- claims on the window

\* C7: selecting a registry entry whose key is not valid UTF-8, or names no
\* sub-table, is an error the handler returns to its caller: once the user
\* has selected an entry the process has not panicked.
C7_SelectionNeverPanics == last.op = "select" => ~crashed

\* A step of SpecWin in which open_database ran from the dialog's answer to
\* its end.
OpenStep == dialog /\ ~dialog' /\ last'.op = "open"

FailedOpenOutcomes ==
    { "dismissed", "cancelled", "dialog-error", "open-error", "load-error" }

\* C9: an open attempt that is dismissed or cancelled, or whose environment
\* cannot be opened, or whose unnamed table cannot be loaded, leaves the
\* stored environment and the installed models as they were; the window can
\* start another attempt.
C9_FailedOpenLeavesWindow ==
    [][( OpenStep /\ last'.outcome \in FailedOpenOutcomes ) =>
          /\ env' = env
          /\ models' = models
          /\ selected' = selected
          /\ ~crashed' /\ ~dialog'
          /\ last'.ok <=> last'.outcome \in { "dismissed", "cancelled" }]_vars

\* C9's case: with an environment opened and its registry installed, an
\* attempt on another root failed at loading the unnamed table.
C9_Witness ==
    /\ last.op = "open" /\ last.outcome = "load-error"
    /\ env # NoEnv
    /\ models["drop_down"].some
    /\ n_items(models["drop_down"]) > 0

\* A step of win.update-database.
UpdateStep == store' = store /\ ~dialog /\ ~dialog' /\ last'.op = "update"

\* C15: a reload of one collection, whether it succeeds or fails, leaves
\* every other collection of the environment as it was, and what it emits
\* it emits on the reloaded collection, which shows its new entries then;
\* and when the registry's reload fails in win.update-database, the
\* registry stays as it was and the reload of the table collection is still
\* called, after it.
C15_ReloadsAreIndependent ==
    /\ [][\A s \in Slots : ReloadStep(s) =>
            /\ \A o \in Slots \ {s} :
                  models'[o] = models[o] /\ snapshot'[o] = snapshot[o]
            /\ \A i \in 1 .. Len(last'.emitted) :
                  last'.emitted[i].seen = Observed(models'[s])]_vars
    /\ [][( /\ UpdateStep
            /\ models["drop_down"].some /\ models["column_view_model"].some
            /\ Len(last'.ran) >= 1 /\ ~last'.ran[1].ok ) =>
            /\ ~crashed'
            /\ models'["drop_down"] = models["drop_down"]
            /\ Len(last'.ran) = 2
            /\ last'.ran[1].slot = "drop_down"
            /\ last'.ran[2].slot = "column_view_model"
            /\ \A i \in 1 .. Len(last'.emitted) :
                  last'.emitted[i].slot = "column_view_model"
            /\ last'.ran[2].ok <=> Len(last'.emitted) = 1]_vars

\* C15's case: win.update-database ran with a registry and a table
\* collection installed; the registry's reload failed and the table
\* collection's reload succeeded.
C15_Witness ==
    /\ last.op = "update"
    /\ Len(last.ran) = 2
    /\ ~last.ran[1].ok /\ last.ran[2].ok
    /\ models["drop_down"].some /\ models["column_view_model"].some

\* C14: the sub-table collection shown in the view was loaded from the
\* environment of the registry installed in the drop-down; and when an open
\* has installed a registry whose selected entry names a sub-table, the
\* handler has loaded that sub-table from the environment just opened.
C14_ViewFollowsOpenedEnv ==
    ~crashed =>
        /\ models["column_view_model"].some =>
                /\ models["drop_down"].some
                /\ models["column_view_model"].env = models["drop_down"].env
        /\ ( /\ last.op = "open" /\ last.outcome = "opened"
             /\ selected.item.some
             /\ SubTableExists(store[env], selected.item.key) ) =>
                /\ models["column_view_model"].some
                /\ models["column_view_model"].env = env
                /\ models["column_view_model"].name = Name(selected.item.key)

====
